---- MODULE Spec2Model ----
(***************************************************************************)
(* Model of the download orchestration engine of media_downloader.py:     *)
(* URL classification, DownloadWorker.run, download_image,                *)
(* download_media, organize_by_creator, save_download_history and the UI  *)
(* handlers that start jobs and change the output directory.              *)
(*                                                                         *)
(* Strings the code inspects character by character (URLs, creator        *)
(* names) are sequences of one-character strings; file-system paths are   *)
(* sequences of path components.                                           *)
(***************************************************************************)
EXTENDS Integers, Sequences, FiniteSets, TLC

\* ------------------------------------------------------------------------
\* String helpers (Python str operations used by the source)
\* ------------------------------------------------------------------------
UpperCase == <<"A","B","C","D","E","F","G","H","I","J","K","L","M",
               "N","O","P","Q","R","S","T","U","V","W","X","Y","Z">>

LowerCase == <<"a","b","c","d","e","f","g","h","i","j","k","l","m",
               "n","o","p","q","r","s","t","u","v","w","x","y","z">>

LowerChar(c) ==
    IF \E i \in DOMAIN UpperCase : UpperCase[i] = c
    THEN LowerCase[CHOOSE i \in DOMAIN UpperCase : UpperCase[i] = c]
    ELSE c

\* str.lower()
lower(s) == [i \in 1..Len(s) |-> LowerChar(s[i])]

\* `sub in s`
Contains(s, sub) ==
    \E i \in 1..(Len(s) - Len(sub) + 1) : SubSeq(s, i, i + Len(sub) - 1) = sub

\* s.endswith(suf)
EndsWith(s, suf) ==
    /\ Len(suf) <= Len(s)
    /\ SubSeq(s, Len(s) - Len(suf) + 1, Len(s)) = suf

\* s.startswith(pre)
StartsWith(s, pre) ==
    /\ Len(pre) <= Len(s)
    /\ SubSeq(s, 1, Len(pre)) = pre

\* s.find(c, from): first index >= from holding a character of cs, 0 if none
FindAny(s, cs, from) ==
    IF \E i \in from..Len(s) : s[i] \in cs
    THEN CHOOSE i \in from..Len(s) :
            /\ s[i] \in cs
            /\ \A k \in from..(i - 1) : s[k] \notin cs
    ELSE 0

\* s.rfind(c): last index holding c, 0 if none
RFind(s, c) ==
    IF \E i \in 1..Len(s) : s[i] = c
    THEN CHOOSE i \in 1..Len(s) :
            /\ s[i] = c
            /\ \A k \in (i + 1)..Len(s) : s[k] # c
    ELSE 0

Tail0(s, i) == SubSeq(s, i, Len(s))

\* characters allowed in a URL scheme (urllib.parse.scheme_chars)
SchemeChars ==
    {UpperCase[i] : i \in DOMAIN UpperCase} \cup
    {LowerCase[i] : i \in DOMAIN LowerCase} \cup
    {"0","1","2","3","4","5","6","7","8","9","+","-","."}

Letters ==
    {UpperCase[i] : i \in DOMAIN UpperCase} \cup
    {LowerCase[i] : i \in DOMAIN LowerCase}

\* urllib.parse.urlsplit, step 1: the scheme, when the text before the first
\* colon is a letter followed by scheme characters
split_scheme(url) ==
    LET colon == FindAny(url, {":"}, 1)
    IN IF /\ colon > 1
          /\ url[1] \in Letters
          /\ \A k \in 1..(colon - 1) : url[k] \in SchemeChars
       THEN [scheme |-> lower(SubSeq(url, 1, colon - 1)), rest |-> Tail0(url, colon + 1)]
       ELSE [scheme |-> <<>>, rest |-> url]

\* step 2 (_splitnetloc): after "//" the netloc runs to the first of / ? #
split_netloc(p) ==
    IF ~StartsWith(p.rest, <<"/","/">>)
    THEN [scheme |-> p.scheme, netloc |-> <<>>, rest |-> p.rest]
    ELSE LET delim == FindAny(p.rest, {"/","?","#"}, 3)
         IN [scheme |-> p.scheme,
             netloc |-> IF delim = 0 THEN Tail0(p.rest, 3)
                        ELSE SubSeq(p.rest, 3, delim - 1),
             rest |-> IF delim = 0 THEN <<>> ELSE Tail0(p.rest, delim)]

\* step 3: the fragment is cut off at the first #
split_fragment(p) ==
    LET hash == FindAny(p.rest, {"#"}, 1)
    IN [p EXCEPT !.rest = IF hash = 0 THEN @ ELSE SubSeq(@, 1, hash - 1)]

\* step 4: the query is what follows the first ?
split_query(p) ==
    LET qm == FindAny(p.rest, {"?"}, 1)
    IN [scheme |-> p.scheme, netloc |-> p.netloc,
        query |-> IF qm = 0 THEN <<>> ELSE Tail0(p.rest, qm + 1),
        rest |-> IF qm = 0 THEN p.rest ELSE SubSeq(p.rest, 1, qm - 1)]

\* urlparse's _splitparams: params are cut off the last path segment at ;
split_params(p) ==
    LET slash == RFind(p.rest, "/")
        semi == FindAny(p.rest, {";"}, IF slash = 0 THEN 1 ELSE slash)
    IN [scheme |-> p.scheme, netloc |-> p.netloc,
        path |-> IF semi = 0 THEN p.rest ELSE SubSeq(p.rest, 1, semi - 1),
        query |-> p.query]

\* urllib.parse.urlparse(url): scheme, netloc, path, query (params and
\* fragment are split off the path as the library does)
urlparse(url) ==
    split_params(split_query(split_fragment(split_netloc(split_scheme(url)))))

\* ------------------------------------------------------------------------
\* URL classification
\* ------------------------------------------------------------------------
\* Platform enum values
Platform_YOUTUBE == <<"Y","o","u","T","u","b","e">>

Platform_TIKTOK == <<"T","i","k","T","o","k">>

Platform_TWITTER == <<"T","w","i","t","t","e","r">>

Platform_IMAGE == <<"I","m","a","g","e">>

Platform_UNKNOWN == <<"U","n","k","n","o","w","n">>

image_extensions ==
    { <<".","j","p","g">>, <<".","j","p","e","g">>, <<".","p","n","g">>,
      <<".","g","i","f">>, <<".","b","m","p">>, <<".","w","e","b","p">>,
      <<".","s","v","g">>, <<".","i","c","o">> }

twimg_hosts ==
    { <<"p","b","s",".","t","w","i","m","g",".","c","o","m">>,
      <<"t","w","i","m","g",".","c","o","m">> }

format_hints ==
    { <<"f","o","r","m","a","t","=","j","p","g">>,
      <<"f","o","r","m","a","t","=","p","n","g">>,
      <<"f","o","r","m","a","t","=","w","e","b","p">> }

is_image_url_case_sensitive(url) ==
    LET parsed_url == urlparse(url)
    IN \/ \E ext \in image_extensions : EndsWith(parsed_url.path, ext)
       \/ /\ \E h \in twimg_hosts : Contains(parsed_url.netloc, h)
          /\ \E f \in format_hints : Contains(url, f)

is_image_url(url) ==
    LET parsed_url == urlparse(lower(url))
    IN \/ \E ext \in image_extensions : EndsWith(parsed_url.path, ext)
       \/ /\ \E h \in twimg_hosts : Contains(parsed_url.netloc, h)
          /\ \E f \in format_hints : Contains(url, f)

twitter_domains ==
    { <<"t","w","i","t","t","e","r",".","c","o","m">>,
      <<"x",".","c","o","m">>,
      <<"w","w","w",".","t","w","i","t","t","e","r",".","c","o","m">>,
      <<"m","o","b","i","l","e",".","t","w","i","t","t","e","r",".","c","o","m">> }

status_segment == <<"/","s","t","a","t","u","s","/">>

is_twitter_media_url(url) ==
    /\ \E d \in twitter_domains : Contains(lower(url), d)
    /\ Contains(lower(url), status_segment)

video_domains ==
    { <<"y","o","u","t","u","b","e",".","c","o","m">>,
      <<"y","o","u","t","u",".","b","e">>,
      <<"w","w","w",".","y","o","u","t","u","b","e",".","c","o","m">>,
      <<"m",".","y","o","u","t","u","b","e",".","c","o","m">>,
      <<"t","i","k","t","o","k",".","c","o","m">>,
      <<"w","w","w",".","t","i","k","t","o","k",".","c","o","m">>,
      <<"v","m",".","t","i","k","t","o","k",".","c","o","m">>,
      <<"v","t",".","t","i","k","t","o","k",".","c","o","m">> }

is_video_url(url) == \E d \in video_domains : Contains(lower(url), d)

detect_platform(url) ==
    LET u == lower(url)
    IN IF url = <<>> THEN Platform_UNKNOWN
       ELSE IF \/ Contains(u, <<"y","o","u","t","u","b","e",".","c","o","m">>)
               \/ Contains(u, <<"y","o","u","t","u",".","b","e">>)
            THEN Platform_YOUTUBE
       ELSE IF \/ Contains(u, <<"t","i","k","t","o","k",".","c","o","m">>)
               \/ Contains(u, <<"v","t",".","t","i","k","t","o","k",".","c","o","m">>)
               \/ Contains(u, <<"v","m",".","t","i","k","t","o","k",".","c","o","m">>)
            THEN Platform_TIKTOK
       ELSE IF \/ Contains(u, <<"t","w","i","t","t","e","r",".","c","o","m">>)
               \/ Contains(u, <<"x",".","c","o","m">>)
            THEN Platform_TWITTER
       ELSE IF is_image_url(url) THEN Platform_IMAGE
       ELSE Platform_UNKNOWN

\* platform label computed inside download_media
media_platform(url) ==
    LET lowered == lower(url)
    IN IF \/ Contains(lowered, <<"y","o","u","t","u","b","e",".","c","o","m">>)
          \/ Contains(lowered, <<"y","o","u","t","u",".","b","e">>)
       THEN Platform_YOUTUBE
       ELSE IF Contains(lowered, <<"t","i","k","t","o","k",".","c","o","m">>)
       THEN Platform_TIKTOK
       ELSE IF \/ Contains(lowered, <<"t","w","i","t","t","e","r",".","c","o","m">>)
               \/ Contains(lowered, <<"x",".","c","o","m">>)
       THEN Platform_TWITTER
       ELSE Platform_UNKNOWN

\* faulty variant of validate_url: the format test alone
validate_url_format_only(url) ==
    LET parsed == urlparse(url)
    IN /\ url # <<>>
       /\ parsed.scheme # <<>>
       /\ parsed.netloc # <<>>

\* DownloaderApp.validate_url: TRUE when the URL is accepted
validate_url(url) ==
    LET parsed == urlparse(url)
    IN /\ url # <<>>
       /\ parsed.scheme # <<>>
       /\ parsed.netloc # <<>>
       /\ (is_video_url(url) \/ is_image_url(url) \/ is_twitter_media_url(url))

\* ------------------------------------------------------------------------
\* Bounds of the model
\* ------------------------------------------------------------------------
\* number of jobs started through start_download in one run of the program
MaxJobs == 1

\* progress-hook events the engine delivers during one ydl.download call
MaxEvents == 2

\* body chunks one image response delivers
MaxChunks == 2

\* ------------------------------------------------------------------------
\* Inputs: URLs typed into the window, folders chosen in the settings dialog
\* ------------------------------------------------------------------------
URL_youtube == <<"h","t","t","p","s",":","/","/","y","o","u","t","u","b","e",".","c","o","m","/","w">>

URL_tiktok == <<"h","t","t","p","s",":","/","/","v","m",".","t","i","k","t","o","k",".","c","o","m","/","a">>

URL_tweet == <<"h","t","t","p","s",":","/","/","x",".","c","o","m","/","u","/","s","t","a","t","u","s","/","1">>

URL_png == <<"h","t","t","p","s",":","/","/","e",".","c","o","m","/","c",".","p","n","g">>

URL_youtube_jpg == <<"h","t","t","p","s",":","/","/","Y","o","u","T","u","b","e",".","c","o","m","/","t",".","j","p","g">>

URL_twimg == <<"h","t","t","p","s",":","/","/","p","b","s",".","t","w","i","m","g",".","c","o","m","/","m","?","f","o","r","m","a","t","=","j","p","g">>

URL_page == <<"h","t","t","p","s",":","/","/","e",".","c","o","m","/","p","a","g","e">>

URL_relative == <<"/","m","?","f","o","r","m","a","t","=","j","p","g">>

URLs ==
    { URL_youtube, URL_tiktok, URL_tweet, URL_png, URL_youtube_jpg, URL_twimg,
      URL_page, URL_relative, <<>> }

\* a path is a sequence of components, each a character sequence
DIR_A == << <<"A">> >>

DIR_B == << <<"B">> >>

DIR_RO == << <<"R","O">> >>

Folders == {DIR_A, DIR_B, DIR_RO}

\* the file system lets files and directories be created under d
Writable(d) == d # DIR_RO

NoPath == <<>>

\* Python None where a string is expected
None == <<"<None>">>

\* ------------------------------------------------------------------------
\* organize_by_creator
\* ------------------------------------------------------------------------
IllegalChars == {"<", ">", ":", "\"", "/", "\\", "|", "?", "*"}

sanitize_keeps_slash(s) ==
    [i \in 1..Len(s) |-> IF s[i] \in IllegalChars \ {"/"} THEN "_" ELSE s[i]]

\* re.sub(r'[<>:"/\\|?*]', '_', s)
sanitize(s) == [i \in 1..Len(s) |-> IF s[i] \in IllegalChars THEN "_" ELSE s[i]]

Falsy(s) == s = None \/ s = <<>>

\* the directory organize_by_creator tries to create
organize_target(download_path, creator, platform) ==
    LET safe_platform == IF Falsy(platform) THEN Platform_UNKNOWN ELSE sanitize(platform)
        safe_creator == IF Falsy(creator) THEN Platform_UNKNOWN ELSE sanitize(creator)
    IN download_path \o <<safe_platform, safe_creator>>

organize_by_creator_ignores_failure(download_path, creator, platform, makedirs_ok) ==
    organize_target(download_path, creator, platform)

\* organize_by_creator: the target when os.makedirs succeeds, else the base
organize_by_creator(download_path, creator, platform, makedirs_ok) ==
    IF makedirs_ok
    THEN organize_target(download_path, creator, platform)
    ELSE download_path

\* ------------------------------------------------------------------------
\* DownloadRecord and the history file
\* ------------------------------------------------------------------------
HistoryCap == 100

\* the clock value when the module is imported
IMPORT_TIME == 1

\* datetime.isoformat(): one text per clock value
isoformat(t) == "T" \o ToString(t)

\* the dataclass default of download_date: datetime.now().isoformat()
\* evaluated once, when the class is defined
DownloadRecord_date == isoformat(IMPORT_TIME)

DownloadRecord(url, platform, creator, title, file_path) ==
    [url |-> url, platform |-> platform, creator |-> creator, title |-> title,
     download_date |-> DownloadRecord_date, file_path |-> file_path]

to_dict(record) ==
    [url |-> record.url, title |-> record.title, creator |-> record.creator,
     platform |-> record.platform, download_date |-> record.download_date,
     file_path |-> record.file_path]

NoRecord == DownloadRecord(<<>>, <<>>, <<>>, <<>>, NoPath)

\* faulty variant of the truncation: history[:100], which keeps the oldest
LastN_keeps_oldest(s, n) == IF Len(s) <= n THEN s ELSE SubSeq(s, 1, n)

\* history[-100:]
LastN(s, n) == IF Len(s) <= n THEN s ELSE SubSeq(s, Len(s) - n + 1, Len(s))

\* an entry written by an earlier run of the program
OldEntry(i) ==
    [url |-> URL_youtube, title |-> <<ToString(i)>>, creator |-> <<"c">>,
     platform |-> Platform_YOUTUBE, download_date |-> "earlier",
     file_path |-> DIR_A]

OldLog(n) == [i \in 1..n |-> OldEntry(i)]

\* contents of ~/.yt_downloader_history.json:
\*   missing     no such file
\*   unreadable  the file exists and open(..., 'r') raises
\*   invalid     not JSON (also an empty or truncated file)
\*   nonlist     JSON that is not an array (an object, a string, null ...)
\*   list        a JSON array, held in log
HistoryFile(kind, log) == [kind |-> kind, log |-> log]

InitialLogLengths == {0, 99, 100, 101}

\* the file as a run of the whole program may find it
ProgramHistories ==
    { HistoryFile(k, <<>>) : k \in {"missing", "invalid", "nonlist"} }
    \cup { HistoryFile("list", OldLog(1)) }

InitialHistories ==
    { HistoryFile(k, <<>>) : k \in {"missing", "unreadable", "invalid", "nonlist"} }
    \cup { HistoryFile("list", OldLog(n)) : n \in InitialLogLengths }

\* outcomes of `with open(history_file, 'w') ...: json.dump(...)`:
\*   ok         the file holds the new array
\*   open_fail  open raises, the file is untouched
\*   dump_fail  open has truncated the file, writing raises before the end
WriteOutcomes == {"ok", "open_fail", "dump_fail"}

\* ------------------------------------------------------------------------
\* Exceptions and signals
\* ------------------------------------------------------------------------
\* An exception message is the kind of text plus the set of phrases, among
\* those the handlers search for, that the text contains.
Exc(kind, kw) == [kind |-> kind, kw |-> kw]

PH_nofile == "No such file or directory"

PH_nsig == "nsig extraction failed"

\* messages the extraction engine can raise with
EngineMessages ==
    { {}, {PH_nofile}, {PH_nsig}, {"not a video"}, {"private"}, {"not found"},
      {"not a video", PH_nsig}, {"not a video", "private"},
      {PH_nofile, PH_nsig} }

\* d.get('error', 'Unknown error') of an error event
ErrorEventMessages == { {}, {"protected"}, {PH_nsig} }

ProgressSig(percent) == [t |-> "progress", v |-> percent, ok |-> FALSE, msg |-> "-"]

FinishedSig(ok, msg) == [t |-> "finished", v |-> 0, ok |-> ok, msg |-> msg]

\* ------------------------------------------------------------------------
\* State
\* ------------------------------------------------------------------------
VARIABLES
    OUTPUT_DIR,      \* the module-level global, a path
    folder_changes,  \* how often change_folder has assigned OUTPUT_DIR
    yt_dlp,          \* FALSE when `import yt_dlp` failed (yt_dlp is None)
    history_file,    \* contents of the history file
    created_dirs,    \* platform/creator directories made by organize_by_creator
    files,           \* files written by the fetchers
    download_btn,    \* the Download button is enabled
    workers,         \* DownloaderApp.workers, a list of worker ids
    job,             \* the DownloadWorker threads, by id, in start order
    clock,           \* the wall clock, an index into Times
    made,            \* the DownloadRecords constructed by direct calls, each
                     \* with the clock value of its construction
    call             \* the direct call of a function last made, with its result

vars ==
    <<OUTPUT_DIR, folder_changes, yt_dlp, history_file, created_dirs, files,
      download_btn, workers, job, clock, made, call>>

\* how often change_folder is used in one run of the program
MaxFolderChanges == 1

NoExc == Exc("none", {})

\* A DownloadWorker and the locals of the call it is executing.
\*   pc          where the thread is
\*   branch      the branch DownloadWorker.run took
\*   start_dir   OUTPUT_DIR when the worker was started
\*   net         network requests issued so far (HTTP GET, probe, download)
\*   probe_dir   the directory the write-permission test was run in
\*   org_base    the base directory handed to organize_by_creator
\*   dl_dir      the directory of the output template handed to ydl.download
\*   sig         the signals emitted, in order
\*   start_history, start_created
\*               the history file and the created directories when the
\*               worker was started
\*   saw_error   the progress hook was handed an error event
\*   info_ok     the probe returned metadata
\*   dl_returned ydl.download returned without raising
\*   caught      the messages (sets of phrases) the handler of
\*               download_media caught: none or one
NewWorker(url) ==
    [ pc |-> "start", url |-> url, branch |-> "none", start_dir |-> OUTPUT_DIR,
      net |-> 0, probe_dir |-> NoPath, probe_calls |-> 0, probe_ok |-> FALSE,
      organize_calls |-> 0, download_calls |-> 0,
      org_base |-> NoPath, organized_dir |-> NoPath, outtmpl |-> NoPath,
      dl_dir |-> NoPath, platform |-> <<>>, uploader |-> <<>>, title |-> <<>>,
      error_flag |-> FALSE, error_msg |-> {}, events |-> 0, saw_error |-> FALSE,
      loaded |-> HistoryFile("missing", <<>>), history |-> <<>>,
      write |-> "none", record |-> NoRecord, returned |-> "none",
      raised |-> NoExc, caught |-> {}, appended |-> 0, sig |-> <<>>,
      start_history |-> history_file, start_created |-> created_dirs,
      info_ok |-> FALSE, dl_returned |-> FALSE,
      filepath |-> NoPath, total_size |-> 0, downloaded |-> 0, chunks |-> 0 ]

\* a worker that finished and was dropped from DownloaderApp.workers
Dropped ==
    [NewWorker(<<>>) EXCEPT !.pc = "dropped", !.start_dir = NoPath,
                            !.start_history = HistoryFile("missing", <<>>),
                            !.start_created = {}]

\* no function has been called directly
NoCall == [op |-> "none"]

Init ==
    /\ OUTPUT_DIR = DIR_A
    /\ folder_changes = 0
    /\ yt_dlp \in BOOLEAN
    /\ history_file \in ProgramHistories
    /\ yt_dlp = FALSE => history_file.kind = "missing"
    /\ created_dirs = {}
    /\ files = {}
    /\ download_btn = TRUE
    /\ workers = <<>>
    /\ job = <<>>
    /\ clock = IMPORT_TIME
    /\ made = <<>>
    /\ call = NoCall

Jobs == DOMAIN job

\* ------------------------------------------------------------------------
\* Signals and exception handling of DownloadWorker.run
\* ------------------------------------------------------------------------
\* faulty variant of progress_callback: every value is forwarded
progress_callback_unfiltered(w, percent) ==
    [w EXCEPT !.sig = Append(@, ProgressSig(percent))]

\* progress_callback(percent)
progress_callback(w, percent) ==
    IF 0 <= percent /\ percent <= 100
    THEN [w EXCEPT !.sig = Append(@, ProgressSig(percent))]
    ELSE w

\* self.finished.emit(ok, msg), the last statement of every path of run
emit_finished(w, ok, msg) ==
    [w EXCEPT !.sig = Append(@, FinishedSig(ok, msg)), !.pc = "done"]

\* the outer `except Exception as e` of run
run_except(w, e) == emit_finished([w EXCEPT !.raised = e], FALSE, e.kind)

\* faulty variant of the Twitter/X handler: the remediation message is
\* emitted and the error is re-raised all the same
twitter_except_reraises(w, e) ==
    IF "not a video" \in e.kw
    THEN run_except([w EXCEPT !.sig = Append(@, FinishedSig(FALSE, "tw_not_video"))], e)
    ELSE IF "private" \in e.kw \/ "protected" \in e.kw
    THEN run_except([w EXCEPT !.sig = Append(@, FinishedSig(FALSE, "tw_private"))], e)
    ELSE IF "not found" \in e.kw \/ "does not exist" \in e.kw
    THEN run_except([w EXCEPT !.sig = Append(@, FinishedSig(FALSE, "tw_not_found"))], e)
    ELSE run_except(w, e)

\* faulty variant of the Twitter/X handler: the private/protected class is
\* tested before the not-a-video class
twitter_except_private_first(w, e) ==
    IF "private" \in e.kw \/ "protected" \in e.kw
    THEN emit_finished([w EXCEPT !.raised = e], FALSE, "tw_private")
    ELSE IF "not a video" \in e.kw
    THEN emit_finished([w EXCEPT !.raised = e], FALSE, "tw_not_video")
    ELSE IF "not found" \in e.kw \/ "does not exist" \in e.kw
    THEN emit_finished([w EXCEPT !.raised = e], FALSE, "tw_not_found")
    ELSE run_except(w, e)

\* the `except Exception as twitter_error` of the Twitter/X branch
twitter_except(w, e) ==
    IF "not a video" \in e.kw
    THEN emit_finished([w EXCEPT !.raised = e], FALSE, "tw_not_video")
    ELSE IF "private" \in e.kw \/ "protected" \in e.kw
    THEN emit_finished([w EXCEPT !.raised = e], FALSE, "tw_private")
    ELSE IF "not found" \in e.kw \/ "does not exist" \in e.kw
    THEN emit_finished([w EXCEPT !.raised = e], FALSE, "tw_not_found")
    ELSE run_except(w, e)

\* an exception leaves download_media and reaches the branch of run that
\* called it
media_raise(w, e) ==
    LET r == [w EXCEPT !.returned = "raised"]
    IN IF w.branch = "twitter" THEN twitter_except(r, e) ELSE run_except(r, e)

\* faulty variant of the handler of download_media: the engine-update hint
\* is tested first
media_except_nsig_first(w, kw) ==
    IF PH_nsig \in kw
    THEN media_raise([w EXCEPT !.caught = {kw}], Exc("update_hint", {}))
    ELSE IF PH_nofile \in kw
    THEN media_raise([w EXCEPT !.caught = {kw}], Exc("path_hint", {}))
    ELSE media_raise([w EXCEPT !.caught = {kw}], Exc("generic", kw))

\* the `except Exception as e` of download_media (probe/download block): the
\* remediation hint, then the raise
media_except(w, kw) ==
    IF PH_nofile \in kw
    THEN media_raise([w EXCEPT !.caught = {kw}], Exc("path_hint", {}))
    ELSE IF PH_nsig \in kw
    THEN media_raise([w EXCEPT !.caught = {kw}], Exc("update_hint", {}))
    ELSE media_raise([w EXCEPT !.caught = {kw}], Exc("generic", kw))

\* the `except Exception as e` of download_image
image_except(w) ==
    run_except([w EXCEPT !.returned = "raised"], Exc("image_failed", {}))

Upd(j, w) == job' = [job EXCEPT ![j] = w]

\* the value of the progress bar once the signals queued to the window have
\* been delivered: 0 after start_download and after download_finished, else
\* the last progress value of the worker started last
progress_bar ==
    LET live == {j \in Jobs : job[j].pc # "dropped"}
        last == CHOOSE j \in live : \A k \in live : k <= j
        idx == {i \in DOMAIN job[last].sig : job[last].sig[i].t = "progress"}
    IN IF live = {} \/ idx = {} THEN 0
       ELSE job[last].sig[CHOOSE i \in idx : \A k \in idx : k <= i].v

\* ------------------------------------------------------------------------
\* The window: start_download, on_worker_finished, change_folder
\* ------------------------------------------------------------------------
\* faulty variant of start_download: the button is disabled before the URL
\* is validated
start_download_disables_first(url) ==
    /\ download_btn
    /\ call' = [op |-> "start_download", url |-> url]
    /\ download_btn' = FALSE
    /\ IF validate_url(url)
       THEN /\ job' = Append(job, NewWorker(url))
            /\ workers' = Append(workers, Len(job) + 1)
       ELSE UNCHANGED <<job, workers>>
    /\ UNCHANGED <<clock, made, OUTPUT_DIR, folder_changes, yt_dlp, history_file,
                   created_dirs, files>>

\* faulty variant of start_download: the button stays enabled
start_download_button_stays(url) ==
    /\ download_btn
    /\ call' = [op |-> "start_download", url |-> url]
    /\ IF validate_url(url)
       THEN /\ job' = Append(job, NewWorker(url))
            /\ workers' = Append(workers, Len(job) + 1)
       ELSE UNCHANGED <<job, workers>>
    /\ UNCHANGED <<clock, made, OUTPUT_DIR, folder_changes, yt_dlp, history_file,
                   created_dirs, files, download_btn>>

\* start_download, the slot of the download button (which delivers clicks
\* only while it is enabled): a rejected URL gets a message box and the
\* handler returns; for an accepted one the button is disabled and a worker
\* is created, appended to the worker list and started
start_download(url) ==
    /\ download_btn
    /\ call' = [op |-> "start_download", url |-> url]
    /\ IF validate_url(url)
       THEN /\ download_btn' = FALSE
            /\ job' = Append(job, NewWorker(url))
            /\ workers' = Append(workers, Len(job) + 1)
       ELSE UNCHANGED <<download_btn, job, workers>>
    /\ UNCHANGED <<clock, made, OUTPUT_DIR, folder_changes, yt_dlp, history_file,
                   created_dirs, files>>

\* start_download with an accepted URL
StartDownload(url) ==
    /\ download_btn
    /\ Len(job) < MaxJobs
    /\ validate_url(url)
    /\ start_download(url)

\* start_download with a rejected URL
StartRejected(url) ==
    /\ download_btn
    /\ ~validate_url(url)
    /\ start_download(url)

\* faulty variant of on_worker_finished: the button is left disabled
OnWorkerFinished_button_left(j) ==
    /\ j \in Jobs
    /\ job[j].pc = "done"
    /\ \E i \in DOMAIN workers : workers[i] = j
    /\ workers' = SelectSeq(workers, LAMBDA x : x # j)
    /\ Upd(j, Dropped)
    /\ UNCHANGED <<clock, made, call, OUTPUT_DIR, folder_changes, yt_dlp, history_file,
                   created_dirs, files, download_btn>>

\* on_worker_finished, the slot the finished signal is queued to
OnWorkerFinished(j) ==
    /\ j \in Jobs
    /\ job[j].pc = "done"
    /\ \E i \in DOMAIN workers : workers[i] = j
    /\ workers' = SelectSeq(workers, LAMBDA x : x # j)
    /\ download_btn' = TRUE
    /\ Upd(j, Dropped)
    /\ UNCHANGED <<clock, made, call, OUTPUT_DIR, folder_changes, yt_dlp, history_file,
                   created_dirs, files>>

\* SettingsDialog.change_folder: the global is assigned before the folder is
\* tested, and stays assigned when the test fails
ChangeFolder(folder) ==
    /\ folder_changes < MaxFolderChanges
    /\ OUTPUT_DIR' = folder
    /\ folder_changes' = folder_changes + 1
    /\ UNCHANGED <<clock, made, call, yt_dlp, history_file, created_dirs, files, download_btn,
                   workers, job>>

\* ------------------------------------------------------------------------
\* download_image
\* ------------------------------------------------------------------------
\* index of the first occurrence of sub in s at or after from, 0 if none
FindSub(s, sub, from) ==
    IF \E i \in from..(Len(s) - Len(sub) + 1) : SubSeq(s, i, i + Len(sub) - 1) = sub
    THEN CHOOSE i \in from..(Len(s) - Len(sub) + 1) :
            /\ SubSeq(s, i, i + Len(sub) - 1) = sub
            /\ \A k \in from..(i - 1) : SubSeq(s, k, k + Len(sub) - 1) # sub
    ELSE 0

\* s.strip(c)
RECURSIVE Strip(_, _)
Strip(s, c) ==
    IF s # <<>> /\ s[1] = c THEN Strip(Tail(s), c)
    ELSE IF s # <<>> /\ s[Len(s)] = c THEN Strip(SubSeq(s, 1, Len(s) - 1), c)
    ELSE s

FILENAME_EQ == <<"f","i","l","e","n","a","m","e","=">>

\* cd.split('filename=')[1].strip('"')
cd_filename(cd) ==
    LET a == FindSub(cd, FILENAME_EQ, 1)
        rest == Tail0(cd, a + Len(FILENAME_EQ))
        b == FindSub(rest, FILENAME_EQ, 1)
        part == IF b = 0 THEN rest ELSE SubSeq(rest, 1, b - 1)
    IN Strip(part, "\"")

\* os.path.basename
basename(path) == Tail0(path, RFind(path, "/") + 1)

DigitChars == <<"0","1","2","3","4","5","6","7","8","9">>

\* str(n) for n >= 0
RECURSIVE Digits(_)
Digits(n) ==
    IF n < 10 THEN <<DigitChars[n + 1]>>
    ELSE Digits(n \div 10) \o <<DigitChars[(n % 10) + 1]>>

\* the extension chosen from the Content-Type header
content_type_ext(content_type) ==
    IF \/ Contains(content_type, <<"j","p","e","g">>)
       \/ Contains(content_type, <<"j","p","g">>)
    THEN <<".","j","p","g">>
    ELSE IF Contains(content_type, <<"p","n","g">>) THEN <<".","p","n","g">>
    ELSE IF Contains(content_type, <<"g","i","f">>) THEN <<".","g","i","f">>
    ELSE IF Contains(content_type, <<"w","e","b","p">>) THEN <<".","w","e","b","p">>
    ELSE <<".","j","p","g">>

HASH_MOD == 10000

\* the file name download_image settles on, before it is sanitized;
\* h is hash(url), cd and content_type are <<>> when the header is absent
image_filename(url, cd, content_type, h) ==
    LET from_cd == IF Contains(cd, FILENAME_EQ) THEN cd_filename(cd) ELSE <<>>
        from_url == basename(urlparse(url).path)
    IN IF from_cd # <<>> THEN from_cd
       ELSE IF from_url # <<>> /\ Contains(from_url, <<".">>) THEN from_url
       ELSE <<"i","m","a","g","e","_">> \o Digits(h % HASH_MOD)
            \o content_type_ext(content_type)

\* os.path.join(OUTPUT_DIR, sanitized file name)
image_filepath(dir, url, cd, content_type, h) ==
    dir \o <<sanitize(image_filename(url, cd, content_type, h))>>

\* what the HTTP server answers: ok is FALSE for a connection error or a
\* status raise_for_status rejects; content_length 0 stands for no header
CD_png == <<"a","t","t","a","c","h","m","e","n","t",";"," ","f","i","l","e","n","a","m","e","=","\"","d",".","p","n","g","\"">>

CT_png == <<"i","m","a","g","e","/","p","n","g">>

ImageResponses ==
    { [ok |-> FALSE, cd |-> <<>>, content_type |-> <<>>, content_length |-> 0] }
    \cup
    { [ok |-> TRUE, cd |-> cd, content_type |-> CT_png, content_length |-> n] :
        cd \in {<<>>, CD_png}, n \in {0, 3} }

\* values of hash(url) tried
HashSamples == {7, 123456}

\* sizes of the chunks iter_content yields (at most chunk_size bytes each)
ChunkSizes == {1, 2}

\* requests.get(url, headers, stream=True) is sent
ImgRequest(j) ==
    /\ j \in Jobs
    /\ job[j].pc = "img_request"
    /\ Upd(j, [job[j] EXCEPT !.net = @ + 1, !.pc = "img_wait"])
    /\ UNCHANGED <<clock, made, call, OUTPUT_DIR, folder_changes, yt_dlp, history_file,
                   created_dirs, files, download_btn, workers>>

\* the response arrives: file name, file path under the current OUTPUT_DIR,
\* open(filepath, 'wb')
ImgResponse(j, resp, h) ==
    /\ j \in Jobs
    /\ job[j].pc = "img_wait"
    /\ LET w == job[j]
           filepath == image_filepath(OUTPUT_DIR, w.url, resp.cd, resp.content_type, h)
       IN IF ~resp.ok \/ ~Writable(OUTPUT_DIR)
          THEN /\ Upd(j, image_except(w))
               /\ files' = files
          ELSE /\ Upd(j, [w EXCEPT !.pc = "img_body", !.filepath = filepath,
                                    !.total_size = resp.content_length,
                                    !.downloaded = 0])
               /\ files' = files \cup {filepath}
    /\ UNCHANGED <<clock, made, call, OUTPUT_DIR, folder_changes, yt_dlp, history_file,
                   created_dirs, download_btn, workers>>

image_chunk_percent_of_chunk(w, n) ==
    LET d == w.downloaded + n
        w1 == [w EXCEPT !.downloaded = d, !.chunks = @ + 1]
        percent == (n * 100) \div w.total_size
    IN IF w.total_size > 0
       THEN progress_callback(w1, IF percent < 100 THEN percent ELSE 100)
       ELSE w1

\* one non-empty chunk of the body is written
image_chunk(w, n) ==
    LET d == w.downloaded + n
        w1 == [w EXCEPT !.downloaded = d, !.chunks = @ + 1]
        percent == (d * 100) \div w.total_size
    IN IF w.total_size > 0
       THEN progress_callback(w1, IF percent < 100 THEN percent ELSE 100)
       ELSE w1

ImgChunk(j, n) ==
    /\ j \in Jobs
    /\ job[j].pc = "img_body"
    /\ job[j].chunks < MaxChunks
    /\ Upd(j, image_chunk(job[j], n))
    /\ UNCHANGED <<clock, made, call, OUTPUT_DIR, folder_changes, yt_dlp, history_file,
                   created_dirs, files, download_btn, workers>>

\* reading the body raises
ImgReadError(j) ==
    /\ j \in Jobs
    /\ job[j].pc = "img_body"
    /\ Upd(j, image_except(job[j]))
    /\ UNCHANGED <<clock, made, call, OUTPUT_DIR, folder_changes, yt_dlp, history_file,
                   created_dirs, files, download_btn, workers>>

\* the body is complete: progress 100, the path is returned, run emits finished
image_done(w) ==
    emit_finished([progress_callback(w, 100) EXCEPT !.returned = "path"],
                  TRUE, "image_ok")

ImgDone(j) ==
    /\ j \in Jobs
    /\ job[j].pc = "img_body"
    /\ Upd(j, image_done(job[j]))
    /\ UNCHANGED <<clock, made, call, OUTPUT_DIR, folder_changes, yt_dlp, history_file,
                   created_dirs, files, download_btn, workers>>

\* ------------------------------------------------------------------------
\* DownloadWorker.run: routing
\* ------------------------------------------------------------------------
\* the branch run takes for a URL
run_branch(url) ==
    IF is_image_url(url) THEN "image"
    ELSE IF is_video_url(url) THEN "video"
    ELSE IF is_twitter_media_url(url) THEN "twitter"
    ELSE "unsupported"

\* run_branch of every URL a worker can be given, computed once
run_branches == [url \in URLs |-> run_branch(url)]

Run(j) ==
    /\ j \in Jobs
    /\ job[j].pc = "start"
    /\ LET w == job[j]
           b == run_branches[w.url]
       IN IF b = "image"
          THEN Upd(j, [w EXCEPT !.branch = b, !.pc = "img_request"])
          ELSE IF b \in {"video", "twitter"}
          THEN Upd(j, [w EXCEPT !.branch = b, !.pc = "m_enter"])
          ELSE Upd(j, run_except([w EXCEPT !.branch = b], Exc("unsupported", {})))
    /\ UNCHANGED <<clock, made, call, OUTPUT_DIR, folder_changes, yt_dlp, history_file,
                   created_dirs, files, download_btn, workers>>

\* ------------------------------------------------------------------------
\* download_media
\* ------------------------------------------------------------------------
UNKNOWN_CREATOR == <<"U","n","k","n","o","w","n"," ","C","r","e","a","t","o","r">>

UNKNOWN_TITLE == <<"U","n","k","n","o","w","n"," ","T","i","t","l","e">>

\* what extract_info returns: <<>> stands for a key the engine left out
ProbeInfos ==
    { [uploader |-> <<"a","l",":","i","c","e">>, title |-> <<"c","l","i","p">>],
      [uploader |-> <<>>, title |-> <<>>] }

\* info.get(key, default)
info_get(v, default) == IF v = <<>> THEN default ELSE v

\* events the engine hands to the progress hook; total 0 stands for neither
\* total_bytes nor total_bytes_estimate
Event(status, total, downloaded, error) ==
    [status |-> status, total |-> total, downloaded |-> downloaded, error |-> error]

EngineEvents ==
    { Event("error", 0, 0, m) : m \in ErrorEventMessages }
    \cup { Event("downloading", 0, 1, {}), Event("downloading", 2, 1, {}),
           Event("downloading", 2, 3, {}), Event("finished", 0, 0, {}) }

\* faulty variant of the hook: the flag follows the latest event
ydl_progress_hook_latest_event(w, d) ==
    LET w1 == [w EXCEPT !.error_flag = (d.status = "error"), !.error_msg = d.error]
    IN IF d.status = "downloading"
       THEN IF d.total # 0
            THEN progress_callback(w1, (d.downloaded * 100) \div d.total)
            ELSE progress_callback(w1, 0)
       ELSE IF d.status = "finished"
       THEN progress_callback(w1, 100)
       ELSE w1

\* ydl_progress_hook(d)
ydl_progress_hook(w, d) ==
    LET w1 == IF d.status = "error"
              THEN [w EXCEPT !.error_flag = TRUE, !.error_msg = d.error]
              ELSE w
    IN IF d.status = "downloading"
       THEN IF d.total # 0
            THEN progress_callback(w1, (d.downloaded * 100) \div d.total)
            ELSE progress_callback(w1, 0)
       ELSE IF d.status = "finished"
       THEN progress_callback(w1, 100)
       ELSE w1

\* entry of download_media: the yt_dlp check, the platform label, the
\* provisional output template, then the write-permission test in OUTPUT_DIR
MEnter(j) ==
    /\ j \in Jobs
    /\ job[j].pc = "m_enter"
    /\ LET w == job[j]
           w1 == [w EXCEPT !.platform = media_platform(w.url),
                           !.outtmpl = OUTPUT_DIR,
                           !.probe_dir = OUTPUT_DIR]
       IN IF ~yt_dlp
          THEN Upd(j, media_raise(w, Exc("not_installed", {})))
          ELSE IF ~Writable(OUTPUT_DIR)
          THEN Upd(j, media_raise(w1, Exc("cannot_write", {})))
          ELSE Upd(j, [w1 EXCEPT !.probe_ok = TRUE, !.pc = "m_probe"])
    /\ UNCHANGED <<clock, made, call, OUTPUT_DIR, folder_changes, yt_dlp, history_file,
                   created_dirs, files, download_btn, workers>>

\* ydl.extract_info(url, download=False) is called
MProbeCall(j) ==
    /\ j \in Jobs
    /\ job[j].pc = "m_probe"
    /\ Upd(j, [job[j] EXCEPT !.net = @ + 1, !.probe_calls = @ + 1,
                             !.pc = "m_probe_wait"])
    /\ UNCHANGED <<clock, made, call, OUTPUT_DIR, folder_changes, yt_dlp, history_file,
                   created_dirs, files, download_btn, workers>>

\* the probe raises with message m
probe_failed(w, m) == media_except(w, m)

MProbeFail(j, m) ==
    /\ j \in Jobs
    /\ job[j].pc = "m_probe_wait"
    /\ Upd(j, probe_failed(job[j], m))
    /\ UNCHANGED <<clock, made, call, OUTPUT_DIR, folder_changes, yt_dlp, history_file,
                   created_dirs, files, download_btn, workers>>

\* the probe returns the metadata
MProbeOk(j, info) ==
    /\ j \in Jobs
    /\ job[j].pc = "m_probe_wait"
    /\ Upd(j, [job[j] EXCEPT !.title = info_get(info.title, UNKNOWN_TITLE),
                             !.uploader = info_get(info.uploader, UNKNOWN_CREATOR),
                             !.info_ok = TRUE,
                             !.pc = "m_organize"])
    /\ UNCHANGED <<clock, made, call, OUTPUT_DIR, folder_changes, yt_dlp, history_file,
                   created_dirs, files, download_btn, workers>>

\* faulty variant of the organize step: the output template keeps the
\* provisional directory
media_organize_keeps_template(w, base, makedirs_ok) ==
    LET organized_dir == organize_by_creator(base, w.uploader, w.platform, makedirs_ok)
    IN [w EXCEPT !.org_base = base, !.organize_calls = @ + 1,
                 !.organized_dir = organized_dir, !.pc = "m_download"]

\* organized_dir = organize_by_creator(OUTPUT_DIR, uploader, platform) and
\* the output template set to it; makedirs_ok is whether os.makedirs succeeds
media_organize(w, base, makedirs_ok) ==
    LET organized_dir == organize_by_creator(base, w.uploader, w.platform, makedirs_ok)
    IN [w EXCEPT !.org_base = base, !.organize_calls = @ + 1,
                 !.organized_dir = organized_dir, !.outtmpl = organized_dir,
                 !.pc = "m_download"]

MOrganize(j, makedirs_ok) ==
    /\ j \in Jobs
    /\ job[j].pc = "m_organize"
    /\ makedirs_ok => Writable(OUTPUT_DIR)
    /\ Upd(j, media_organize(job[j], OUTPUT_DIR, makedirs_ok))
    /\ created_dirs' =
          IF makedirs_ok
          THEN created_dirs \cup
                 {organize_target(OUTPUT_DIR, job[j].uploader, job[j].platform)}
          ELSE created_dirs
    /\ UNCHANGED <<clock, made, call, OUTPUT_DIR, folder_changes, yt_dlp, history_file,
                   files, download_btn, workers>>

\* ydl.download([url]) is called with the output template
media_download_call(w) ==
    [w EXCEPT !.net = @ + 1, !.download_calls = @ + 1, !.dl_dir = w.outtmpl,
              !.pc = "m_events"]

MDownloadCall(j) ==
    /\ j \in Jobs
    /\ job[j].pc = "m_download"
    /\ Upd(j, media_download_call(job[j]))
    /\ UNCHANGED <<clock, made, call, OUTPUT_DIR, folder_changes, yt_dlp, history_file,
                   created_dirs, files, download_btn, workers>>

\* the engine calls the progress hook
MEvent(j, d) ==
    /\ j \in Jobs
    /\ job[j].pc = "m_events"
    /\ job[j].events < MaxEvents
    /\ Upd(j, [ydl_progress_hook(job[j], d) EXCEPT
                  !.events = @ + 1,
                  !.saw_error = @ \/ d.status = "error"])
    /\ UNCHANGED <<clock, made, call, OUTPUT_DIR, folder_changes, yt_dlp, history_file,
                   created_dirs, files, download_btn, workers>>

\* ydl.download raises with message m
MDownloadRaise(j, m) ==
    /\ j \in Jobs
    /\ job[j].pc = "m_events"
    /\ Upd(j, media_except(job[j], m))
    /\ UNCHANGED <<clock, made, call, OUTPUT_DIR, folder_changes, yt_dlp, history_file,
                   created_dirs, files, download_btn, workers>>

\* ydl.download returns: the error flag is tested, then the record is built
media_after_download(w) ==
    IF w.error_flag
    THEN media_except(w, w.error_msg)
    ELSE [w EXCEPT !.record = DownloadRecord(w.url, w.platform, w.uploader,
                                             w.title, w.organized_dir),
                   !.pc = "m_save_load"]

MDownloadReturn(j) ==
    /\ j \in Jobs
    /\ job[j].pc = "m_events"
    /\ Upd(j, media_after_download([job[j] EXCEPT !.dl_returned = TRUE]))
    /\ files' = IF job[j].error_flag THEN files
                ELSE files \cup {job[j].dl_dir \o <<job[j].title>>}
    /\ UNCHANGED <<clock, made, call, OUTPUT_DIR, folder_changes, yt_dlp, history_file,
                   created_dirs, download_btn, workers>>

\* ------------------------------------------------------------------------
\* save_download_history
\* ------------------------------------------------------------------------
\* the list the load step leaves in `history`: [] unless the file holds JSON
\* that parses (a non-list value is kept as it parsed)
load_history(file) == IF file.kind = "list" THEN file.log ELSE <<>>

\* faulty variant of the append: the list is not cut to its last 100 entries
append_history_uncapped(history, record) == Append(history, to_dict(record))

\* history.append(record.to_dict()); history = history[-100:]
append_history(history, record) ==
    LastN(Append(history, to_dict(record)), HistoryCap)

\* load and append; history.append raises AttributeError on a non-list
save_load(w, file) ==
    IF file.kind = "nonlist"
    THEN media_except(w, {})
    ELSE [w EXCEPT !.loaded = file,
                   !.history = append_history(load_history(file), w.record),
                   !.pc = "m_save_write"]

SaveLoad(j) ==
    /\ j \in Jobs
    /\ job[j].pc = "m_save_load"
    /\ Upd(j, save_load(job[j], history_file))
    /\ UNCHANGED <<clock, made, call, OUTPUT_DIR, folder_changes, yt_dlp, history_file,
                   created_dirs, files, download_btn, workers>>

\* the file after the write step
written_file(file, history, outcome) ==
    IF outcome = "ok" THEN HistoryFile("list", history)
    ELSE IF outcome = "dump_fail" THEN HistoryFile("invalid", <<>>)
    ELSE file

\* the write step; a failure is logged and swallowed
SaveWrite(j, outcome) ==
    /\ j \in Jobs
    /\ job[j].pc = "m_save_write"
    /\ history_file' = written_file(history_file, job[j].history, outcome)
    /\ Upd(j, [job[j] EXCEPT !.write = outcome,
                             !.appended = IF outcome = "ok" THEN @ + 1 ELSE @,
                             !.pc = "m_return"])
    /\ UNCHANGED <<clock, made, call, OUTPUT_DIR, folder_changes, yt_dlp, created_dirs, files,
                   download_btn, workers>>

\* faulty variant of the return: building the success message raises for a
\* record without a probed creator
media_return_message_raises(w) ==
    IF w.record.creator = UNKNOWN_CREATOR
    THEN media_raise(w, Exc("generic", {}))
    ELSE emit_finished([w EXCEPT !.returned = "record"], TRUE,
                       IF w.branch = "twitter" THEN "twitter_ok" ELSE "video_ok")

\* faulty variant of the return: a failed history write reaches the caller
media_return_write_error(w) ==
    IF w.write # "ok"
    THEN media_except(w, {})
    ELSE emit_finished([w EXCEPT !.returned = "record"], TRUE,
                       IF w.branch = "twitter" THEN "twitter_ok" ELSE "video_ok")

\* download_media returns the record; run emits finished(True, ...)
media_return(w) ==
    emit_finished([w EXCEPT !.returned = "record"], TRUE,
                  IF w.branch = "twitter" THEN "twitter_ok" ELSE "video_ok")

MReturn(j) ==
    /\ j \in Jobs
    /\ job[j].pc = "m_return"
    /\ Upd(j, media_return(job[j]))
    /\ UNCHANGED <<clock, made, call, OUTPUT_DIR, folder_changes, yt_dlp, history_file,
                   created_dirs, files, download_btn, workers>>

\* ------------------------------------------------------------------------
\* Specification
\* ------------------------------------------------------------------------
Next ==
    \/ \E url \in URLs : StartDownload(url)
    \/ \E url \in URLs : StartRejected(url)
    \/ \E j \in Jobs : OnWorkerFinished(j)
    \/ \E folder \in Folders : ChangeFolder(folder)
    \/ \E j \in Jobs : Run(j)
    \/ \E j \in Jobs : ImgRequest(j)
    \/ \E j \in Jobs, resp \in ImageResponses, h \in HashSamples : ImgResponse(j, resp, h)
    \/ \E j \in Jobs, n \in ChunkSizes : ImgChunk(j, n)
    \/ \E j \in Jobs : ImgReadError(j)
    \/ \E j \in Jobs : ImgDone(j)
    \/ \E j \in Jobs : MEnter(j)
    \/ \E j \in Jobs : MProbeCall(j)
    \/ \E j \in Jobs, m \in EngineMessages : MProbeFail(j, m)
    \/ \E j \in Jobs, info \in ProbeInfos : MProbeOk(j, info)
    \/ \E j \in Jobs, ok \in BOOLEAN : MOrganize(j, ok)
    \/ \E j \in Jobs : MDownloadCall(j)
    \/ \E j \in Jobs, d \in EngineEvents : MEvent(j, d)
    \/ \E j \in Jobs, m \in EngineMessages : MDownloadRaise(j, m)
    \/ \E j \in Jobs : MDownloadReturn(j)
    \/ \E j \in Jobs : SaveLoad(j)
    \/ \E j \in Jobs, outcome \in WriteOutcomes : SaveWrite(j, outcome)
    \/ \E j \in Jobs : MReturn(j)

Spec == Init /\ [][Next]_vars

\* ------------------------------------------------------------------------
\* save_download_history on its own: callers hand it records, possibly while
\* another call is between its load and its write
\* ------------------------------------------------------------------------
\* number of save_download_history calls
MaxCalls == 2

CallerRecords ==
    { DownloadRecord(URL_youtube, Platform_YOUTUBE, <<"a","l",":","i","c","e">>,
                     <<"c","l","i","p">>, DIR_A),
      DownloadRecord(URL_tweet, Platform_TWITTER, UNKNOWN_CREATOR,
                     UNKNOWN_TITLE, DIR_B) }

InitHistory ==
    /\ OUTPUT_DIR = DIR_A
    /\ folder_changes = 0
    /\ yt_dlp = TRUE
    /\ history_file \in InitialHistories
    /\ created_dirs = {}
    /\ files = {}
    /\ download_btn = TRUE
    /\ workers = <<>>
    /\ job = <<>>
    /\ clock = IMPORT_TIME
    /\ made = <<>>
    /\ call = NoCall

\* save_download_history(record) is called
CallSave(record) ==
    /\ Len(job) < MaxCalls
    /\ job' = Append(job, [NewWorker(record.url) EXCEPT
                              !.branch = "caller", !.record = record,
                              !.pc = "m_save_load"])
    /\ UNCHANGED <<clock, made, call, OUTPUT_DIR, folder_changes, yt_dlp, history_file,
                   created_dirs, files, download_btn, workers>>

NextHistory ==
    \/ \E record \in CallerRecords : CallSave(record)
    \/ \E j \in Jobs : SaveLoad(j)
    \/ \E j \in Jobs, outcome \in WriteOutcomes : SaveWrite(j, outcome)
    \/ \E j \in Jobs : MReturn(j)

SpecHistory == InitHistory /\ [][NextHistory]_vars


\* ------------------------------------------------------------------------
\* DownloadRecord construction over time
\* ------------------------------------------------------------------------
\* how far the clock runs, and how many records are constructed
MaxClock == 3

MaxRecords == 2

\* the arguments download_media constructs its record from (lines 402-408)
RecordArgs ==
    { [url |-> u, platform |-> media_platform(u), creator |-> <<"c">>,
       title |-> <<"t">>, file_path |-> DIR_A] :
        u \in {URL_youtube, URL_tiktok, URL_tweet} }

\* the program at rest, before functions are called directly
InitCalls ==
    /\ OUTPUT_DIR = DIR_A
    /\ folder_changes = 0
    /\ yt_dlp = TRUE
    /\ history_file = HistoryFile("missing", <<>>)
    /\ files = {}
    /\ download_btn = TRUE
    /\ workers = <<>>
    /\ job = <<>>
    /\ created_dirs = {}
    /\ clock = IMPORT_TIME
    /\ made = <<>>
    /\ call = NoCall

\* time passes
Tick ==
    /\ clock < MaxClock
    /\ clock' = clock + 1
    /\ UNCHANGED <<OUTPUT_DIR, folder_changes, yt_dlp, history_file,
                   created_dirs, files, download_btn, workers, job, made, call>>

\* DownloadRecord(url=..., platform=..., creator=..., title=..., file_path=...)
\* is evaluated now
Construct(a) ==
    /\ Len(made) < MaxRecords
    /\ made' = Append(made,
                  [record |-> DownloadRecord(a.url, a.platform, a.creator,
                                             a.title, a.file_path),
                   at |-> clock])
    /\ UNCHANGED <<OUTPUT_DIR, folder_changes, yt_dlp, history_file,
                   created_dirs, files, download_btn, workers, job, clock, call>>

NextRecords ==
    \/ Tick
    \/ \E a \in RecordArgs : Construct(a)

SpecRecords == InitCalls /\ [][NextRecords]_vars

\* ------------------------------------------------------------------------
\* download_media: the options handed to the engine
\* ------------------------------------------------------------------------
\* the presets of the quality combo box, and one the program does not list
Qualities == {"4k", "2k", "1080p", "720p", "480p", "360p", "best", "audio", "144p"}

format_map ==
    [q \in {"audio", "4k", "2k", "1080p", "720p", "480p", "360p"} |->
        CASE q = "audio" -> "bestaudio/best"
          [] q = "4k"    -> "bestvideo[height<=2160]+bestaudio/best[height<=2160]"
          [] q = "2k"    -> "bestvideo[height<=1440]+bestaudio/best[height<=1440]"
          [] q = "1080p" -> "bestvideo[height<=1080]+bestaudio/best[height<=1080]"
          [] q = "720p"  -> "bestvideo[height<=720]+bestaudio/best[height<=720]"
          [] q = "480p"  -> "bestvideo[height<=480]+bestaudio/best[height<=480]"
          [] q = "360p"  -> "bestvideo[height<=360]+bestaudio/best[height<=360]"]

\* is_tiktok or is_twitter
format_limited(platform) == platform = Platform_TIKTOK \/ platform = Platform_TWITTER

format_str_by_preset(platform, quality) ==
    IF quality \in DOMAIN format_map THEN format_map[quality] ELSE "best"

format_str(platform, quality) ==
    IF format_limited(platform)
    THEN "best"
    ELSE IF quality \in DOMAIN format_map THEN format_map[quality] ELSE "best"

\* the keys ydl_opts.update adds, and whether it is executed
SubtitleOptions ==
    [writesubtitles |-> TRUE, writeautomaticsub |-> TRUE,
     subtitleslangs |-> <<"en", "en-US">>, subtitlesformat |-> "srt"]

subtitles_added_always(platform, download_subtitles) == download_subtitles

subtitles_added(platform, download_subtitles) ==
    download_subtitles /\ ~format_limited(platform)

\* ydl_opts as it is when the write test is reached (the progress hook and
\* the constant User-Agent header are left out)
ydl_opts(url, quality, download_subtitles) ==
    LET platform == media_platform(url)
        base == [outtmpl |-> OUTPUT_DIR, format |-> format_str(platform, quality),
                 noplaylist |-> TRUE, quiet |-> TRUE, merge_output_format |-> "mp4",
                 concurrent_fragment_downloads |-> 5,
                 restrictfilenames |-> TRUE, windowsfilenames |-> TRUE]
    IN IF subtitles_added(platform, download_subtitles)
       THEN SubtitleOptions @@ base
       ELSE base

\* download_media(url, quality, progress_callback, download_subtitles) is
\* called and has built its options
BuildOptions(url, quality, download_subtitles) ==
    /\ call' = [op |-> "download_media", url |-> url, quality |-> quality,
                download_subtitles |-> download_subtitles,
                platform |-> media_platform(url),
                ydl_opts |-> ydl_opts(url, quality, download_subtitles)]
    /\ UNCHANGED <<OUTPUT_DIR, folder_changes, yt_dlp, history_file,
                   created_dirs, files, download_btn, workers, job, clock, made>>

\* ------------------------------------------------------------------------
\* detect_platform called directly
\* ------------------------------------------------------------------------
ClassifierURLs ==
    URLs \cup
    { <<"h","t","t","p","s",":","/","/","t","w","i","t","t","e","r",".","c","o","m","/","u">>,
      <<"h","t","t","p","s",":","/","/","m","a","x",".","c","o","m","/","a">>,
      <<"h","t","t","p","s",":","/","/","e",".","c","o","m","/","C",".","J","P","G","?","x","=","1">> }

Classify(url) ==
    /\ call' = [op |-> "detect_platform", url |-> url, result |-> detect_platform(url)]
    /\ UNCHANGED <<OUTPUT_DIR, folder_changes, yt_dlp, history_file,
                   created_dirs, files, download_btn, workers, job, clock, made>>

NextCalls ==
    \/ \E url \in URLs, quality \in Qualities, download_subtitles \in BOOLEAN :
          BuildOptions(url, quality, download_subtitles)
    \/ \E url \in ClassifierURLs : Classify(url)

SpecCalls == InitCalls /\ [][NextCalls]_vars

\* ------------------------------------------------------------------------
\* organize_by_creator called directly
\* ------------------------------------------------------------------------
\* how many directories the direct calls create in one run
MaxDirs == 1

\* organize_by_creator(download_path, creator, platform); os.makedirs
\* succeeds (makedirs_ok) only where the file system allows it
Organize(download_path, creator, platform, makedirs_ok) ==
    /\ makedirs_ok => Writable(download_path)
    /\ makedirs_ok =>
          \/ organize_target(download_path, creator, platform) \in created_dirs
          \/ Cardinality(created_dirs) < MaxDirs
    /\ call' = [op |-> "organize_by_creator", download_path |-> download_path,
                creator |-> creator, platform |-> platform,
                makedirs_ok |-> makedirs_ok,
                result |-> organize_by_creator(download_path, creator, platform,
                                               makedirs_ok)]
    /\ created_dirs' =
          IF makedirs_ok
          THEN created_dirs \cup {organize_target(download_path, creator, platform)}
          ELSE created_dirs
    /\ UNCHANGED <<OUTPUT_DIR, folder_changes, yt_dlp, history_file,
                   files, download_btn, workers, job, clock, made>>

NextOrganize ==
    \E download_path \in {DIR_A, DIR_RO},
       creator \in { <<>>, None, <<"b","o","b">>, <<"a",":","b">>, <<".",".">>,
                     <<".",".","/",".",".","/","e">> },
       platform \in { <<>>, None, Platform_YOUTUBE, <<"T","|","k">> },
       makedirs_ok \in BOOLEAN :
        Organize(download_path, creator, platform, makedirs_ok)

SpecOrganize == InitCalls /\ [][NextOrganize]_vars

\* ------------------------------------------------------------------------
\* download_image called directly, up to the opening of the file
\* ------------------------------------------------------------------------
\* download_image(url) receives the response resp, settles on the file path
\* and opens the file for writing ('wb' truncates a file that exists); the
\* result is NoPath when the call raised before that
PlaceImage(url, resp, h) ==
    LET filepath == image_filepath(OUTPUT_DIR, url, resp.cd, resp.content_type, h)
        opened == resp.ok /\ Writable(OUTPUT_DIR)
    IN /\ call' = [op |-> "download_image", url |-> url,
                   result |-> IF opened THEN filepath ELSE NoPath,
                   existed |-> opened /\ filepath \in files]
       /\ files' = IF opened THEN files \cup {filepath} ELSE files
       /\ UNCHANGED <<OUTPUT_DIR, folder_changes, yt_dlp, history_file,
                      created_dirs, download_btn, workers, job, clock, made>>

NextImages ==
    \E url \in { URL_png, URL_twimg,
                 <<"h","t","t","p","s",":","/","/","f",".","c","o","m","/","c",".","p","n","g">>,
                 <<"h","t","t","p","s",":","/","/","p","b","s",".","t","w","i","m","g",".","c","o","m","/","n","?","f","o","r","m","a","t","=","j","p","g">> },
       resp \in ImageResponses, h \in HashSamples :
        PlaceImage(url, resp, h)

SpecImages == InitCalls /\ [][NextImages]_vars

\* ------------------------------------------------------------------------
\* The window with several downloads one after the other, in a reduced
\* environment (a few answers of each kind from the server, the engine and
\* the file system); the worker threads and the event loop are scheduled
\* fairly
\* ------------------------------------------------------------------------
\* number of workers start_download creates
MaxStarts == 2

StartDownloadUI(url) ==
    /\ download_btn
    /\ Len(job) < MaxStarts
    /\ validate_url(url)
    /\ start_download(url)

\* one step of the thread of worker j
WorkerStep(j) ==
    \/ Run(j)
    \/ ImgRequest(j)
    \/ \E resp \in { [ok |-> FALSE, cd |-> <<>>, content_type |-> <<>>, content_length |-> 0],
                      [ok |-> TRUE, cd |-> <<>>, content_type |-> CT_png, content_length |-> 3] } :
          ImgResponse(j, resp, 7)
    \/ ImgChunk(j, 2)
    \/ ImgReadError(j)
    \/ ImgDone(j)
    \/ MEnter(j)
    \/ MProbeCall(j)
    \/ \E m \in {{"private"}, {PH_nofile}} : MProbeFail(j, m)
    \/ MProbeOk(j, [uploader |-> <<"b","o","b">>, title |-> <<>>])
    \/ \E ok \in BOOLEAN : MOrganize(j, ok)
    \/ MDownloadCall(j)
    \/ \E d \in { Event("error", 0, 0, {}), Event("downloading", 2, 1, {}),
                   Event("finished", 0, 0, {}) } : MEvent(j, d)
    \/ MDownloadRaise(j, {})
    \/ MDownloadReturn(j)
    \/ SaveLoad(j)
    \/ \E outcome \in {"ok", "open_fail"} : SaveWrite(j, outcome)
    \/ MReturn(j)

NextUI ==
    \/ \E url \in {URL_png, URL_tweet} : StartDownloadUI(url)
    \/ \E url \in {<<>>, URL_relative, URL_page} : StartRejected(url)
    \/ \E j \in Jobs : OnWorkerFinished(j)
    \/ \E j \in Jobs : WorkerStep(j)

\* a thread that can take a step takes one (every call it makes returns or
\* raises), and the event loop delivers a queued finished signal
SpecUI ==
    /\ InitCalls
    /\ [][NextUI]_vars
    /\ \A j \in 1..MaxStarts : WF_vars(WorkerStep(j)) /\ WF_vars(OnWorkerFinished(j))
\* ------------------------------------------------------------------------
\* Properties
\* ------------------------------------------------------------------------
\* workers that have not been dropped from the worker list
Live == {j \in Jobs : job[j].pc # "dropped"}

FinishedAt(w) == {i \in DOMAIN w.sig : w.sig[i].t = "finished"}

\* the history entry of a record, field by field
EntryOf(r) ==
    [url |-> r.url, title |-> r.title, creator |-> r.creator,
     platform |-> r.platform, download_date |-> r.download_date,
     file_path |-> r.file_path]

\* the log a file stands for: its array, or the empty log
StoredLog(file) == IF file.kind = "list" THEN file.log ELSE <<>>

\* the last 100 entries of old followed by entry
ExpectedLog(old, entry) ==
    LET all == old \o <<entry>>
        n == Len(all)
        k == IF n > 100 THEN 100 ELSE n
    IN [i \in 1..k |-> all[n - k + i]]

\* worker j performs the write step of a save_download_history call that no
\* other call has interleaved with (the file is still as j loaded it)
SequentialWrite(j) ==
    /\ job[j].pc = "m_save_write"
    /\ job'[j].pc = "m_return"
    /\ history_file = job[j].loaded

\* C1 as stated: every save_download_history call executed on its own leaves
\* the file holding the last 100 entries of (previous log, then the record).
C1_Original ==
    [][\A j \in Jobs :
          SequentialWrite(j) =>
             history_file' = HistoryFile("list",
                 ExpectedLog(StoredLog(history_file), EntryOf(job[j].record)))]_vars

\* C1 amended: every save_download_history call executed on its own whose
\* write succeeds leaves the file holding the last 100 entries of (the log
\* it loaded, then the record), so at most 100 entries with the oldest ones
\* evicted; this also holds when the stored log was longer than 100.
C1_Amended ==
    [][\A j \in Jobs :
          (SequentialWrite(j) /\ job'[j].write = "ok") =>
             /\ history_file' = HistoryFile("list",
                    ExpectedLog(StoredLog(history_file), EntryOf(job[j].record)))
             /\ Len(history_file'.log) <= 100]_vars

\* a call appended to a stored log of 101 entries: two old entries are gone
C1_Witness ==
    \E j \in Jobs :
        /\ job[j].pc = "m_return"
        /\ job[j].write = "ok"
        /\ job[j].loaded = HistoryFile("list", OldLog(101))
        /\ history_file.kind = "list"
        /\ Len(history_file.log) = 100
        /\ history_file.log[1] = OldEntry(3)
        /\ history_file.log[100] = EntryOf(job[j].record)

\* C2: the history file differs from what it was when the job started only
\* for an extractor-backed job that is past its save step, and such a job
\* returns its record; a job that raised, and an image job, leave the file
\* as it was; a job that changed the file appended exactly its one record
\* (or left the file truncated by a failed write).
C2_HistoryOnlyOnSuccess ==
    \A j \in Live :
        LET w == job[j]
        IN /\ w.branch \notin {"video", "twitter"} => history_file = w.start_history
           /\ w.returned = "raised" => history_file = w.start_history
           /\ history_file # w.start_history =>
                 /\ w.pc \in {"m_return", "done"}
                 /\ w.pc = "done" => w.returned = "record"
                 /\ \/ history_file = HistoryFile("invalid", <<>>)
                    \/ history_file = HistoryFile("list",
                          ExpectedLog(StoredLog(w.start_history), EntryOf(w.record)))

C2_Witness ==
    \E j \in Live :
        /\ job[j].pc = "done"
        /\ job[j].returned = "record"
        /\ history_file.kind = "list"
        /\ history_file # job[j].start_history
        /\ history_file.log[Len(history_file.log)] = EntryOf(job[j].record)

\* C3: a worker has emitted finished exactly once when run has ended, never
\* before, never twice, and finished is the last signal it emits.
C3_OneFinished ==
    \A j \in Live :
        LET w == job[j]
        IN /\ Cardinality(FinishedAt(w)) <= 1
           /\ (w.pc = "done") <=> (Cardinality(FinishedAt(w)) = 1)
           /\ \A i \in FinishedAt(w) : i = Len(w.sig)

\* a Twitter/X job that reported progress and ended in a remediation class
C3_Witness ==
    \E j \in Live :
        /\ job[j].pc = "done"
        /\ job[j].branch = "twitter"
        /\ Len(job[j].sig) >= 2
        /\ job[j].sig[1].t = "progress"
        /\ job[j].sig[Len(job[j].sig)] = FinishedSig(FALSE, "tw_private")

\* C4: the engine's download is called only after the probe returned and
\* organize_by_creator returned, with the output template in the returned
\* directory; after a failed probe the job has failed, organize_by_creator
\* and the download were never called and no directory was created.
C4_ProbeOrganizeDownload ==
    \A j \in Live :
        LET w == job[j]
        IN /\ w.organize_calls > 0 => w.info_ok
           /\ w.download_calls > 0 =>
                 /\ w.info_ok
                 /\ w.organize_calls = 1
                 /\ w.organized_dir \in
                       {organize_target(w.org_base, w.uploader, w.platform), w.org_base}
                 /\ w.dl_dir = w.organized_dir
           /\ (w.probe_calls > 0 /\ ~w.info_ok /\ w.pc # "m_probe_wait") =>
                 /\ w.pc = "done"
                 /\ w.returned = "raised"
                 /\ w.organize_calls = 0
                 /\ w.download_calls = 0
                 /\ created_dirs = w.start_created

C4_Witness ==
    \E j \in Live :
        /\ job[j].download_calls = 1
        /\ job[j].dl_dir = organize_target(DIR_A, job[j].uploader, job[j].platform)
        /\ job[j].dl_dir \in created_dirs

\* C5: once the progress hook has been handed an error event, the
\* download_media call cannot get past the download: it ends raised, with no
\* record, the history file as it was and a failure reported.
C5_ErrorEventFails ==
    \A j \in Live :
        LET w == job[j]
        IN w.saw_error =>
             /\ w.pc \in {"m_events", "done"}
             /\ w.record = NoRecord
             /\ history_file = w.start_history
             /\ w.pc = "done" =>
                   /\ w.returned = "raised"
                   /\ \A i \in FinishedAt(w) : ~w.sig[i].ok

\* an error event, then a finished event, then ydl.download returned normally
C5_Witness ==
    \E j \in Live :
        /\ job[j].pc = "done"
        /\ job[j].saw_error
        /\ job[j].dl_returned
        /\ job[j].events = 2
        /\ \E i \in DOMAIN job[j].sig : job[j].sig[i] = ProgressSig(100)

\* C6 as stated: run sends a URL to download_image exactly when
\* detect_platform classifies it as Image.
C6_DispatchFollowsClassifier ==
    \A j \in Live :
        job[j].branch \in {"image", "video", "twitter", "unsupported"} =>
            ((job[j].branch = "image") <=> (detect_platform(job[j].url) = Platform_IMAGE))

\* C7 as stated: a job makes no network request before the write-permission
\* test of the output directory has run and passed; a job whose test failed
\* has made none.
C7_ProbeBeforeNetwork ==
    \A j \in Live :
        /\ job[j].net > 0 => job[j].probe_ok
        /\ (job[j].probe_dir # NoPath /\ ~job[j].probe_ok) => job[j].net = 0

\* C8 as stated: the directory a job tests for writability, the one it
\* organizes under and the one its file goes to are the OUTPUT_DIR of the
\* moment the job was started.
C8_OneBaseDirectory ==
    \A j \in Live :
        LET w == job[j]
        IN /\ w.probe_dir # NoPath => w.probe_dir = w.start_dir
           /\ w.org_base # NoPath => w.org_base = w.start_dir
           /\ w.dl_dir # NoPath => StartsWith(w.dl_dir, w.start_dir)
           /\ w.filepath # NoPath => StartsWith(w.filepath, w.start_dir)

\* C9 as stated: save_download_history on a file that exists but does not
\* hold a log never raises to its caller, and when its write succeeds the
\* file holds exactly the new record.
C9_CorruptFileStartsFresh ==
    \A j \in Jobs :
        LET w == job[j]
        IN w.branch = "caller" =>
             /\ w.returned # "raised"
             /\ ( /\ w.pc = "m_return"
                  /\ w.write = "ok"
                  /\ w.loaded.kind \in {"unreadable", "invalid", "nonlist"}
                  /\ \A k \in Jobs \ {j} : job[k].write = "none" )
                => history_file = HistoryFile("list", <<EntryOf(w.record)>>)

\* C10 as stated: after a failed write the stored file is as it was and the
\* job still succeeds.
C10_Original ==
    \A j \in Live :
        LET w == job[j]
        IN w.write \in {"open_fail", "dump_fail"} =>
             /\ history_file = w.loaded
             /\ w.pc \in {"m_return", "done"}
             /\ w.pc = "done" =>
                   /\ w.returned = "record"
                   /\ w.sig[Len(w.sig)].t = "finished" /\ w.sig[Len(w.sig)].ok

\* C10 amended: after a failed write save_download_history has returned
\* normally and the job still succeeds with its record; the stored file is
\* as it was when the file could not be opened, and is left truncated
\* (unreadable as a log) when the failure came after it was opened.
C10_Amended ==
    \A j \in Live :
        LET w == job[j]
        IN w.write \in {"open_fail", "dump_fail"} =>
             /\ w.write = "open_fail" => history_file = w.loaded
             /\ w.write = "dump_fail" => history_file = HistoryFile("invalid", <<>>)
             /\ w.pc \in {"m_return", "done"}
             /\ w.pc = "done" =>
                   /\ w.returned = "record"
                   /\ w.sig[Len(w.sig)].t = "finished" /\ w.sig[Len(w.sig)].ok

C10_Witness ==
    \E j \in Live :
        /\ job[j].pc = "done"
        /\ job[j].write = "dump_fail"
        /\ job[j].loaded.kind = "list"
        /\ job[j].returned = "record"
        /\ history_file.kind = "invalid"


\* C11 as stated: every DownloadRecord carries the clock value of the moment
\* it was constructed, so records constructed at different times carry
\* different dates.
C11_DateIsConstructionTime ==
    /\ \A i \in DOMAIN made : made[i].record.download_date = isoformat(made[i].at)
    /\ \A i, k \in DOMAIN made :
          made[i].at # made[k].at =>
              made[i].record.download_date # made[k].record.download_date

\* the call last made was download_media's option building
OptionsBuilt == call.op = "download_media"

\* the height bound the spec gives for a preset
PresetHeight ==
    [q \in {"4k", "2k", "1080p", "720p", "480p", "360p"} |->
        CASE q = "4k" -> "2160" [] q = "2k" -> "1440" [] q = "1080p" -> "1080"
          [] q = "720p" -> "720" [] q = "480p" -> "480" [] q = "360p" -> "360"]

HeightBounded(h) ==
    "bestvideo[height<=" \o h \o "]+bestaudio/best[height<=" \o h \o "]"

\* C12: the format selector is determined by platform and quality preset:
\* "best" for TikTok and Twitter/X whatever the preset; for the other
\* platforms the height-bounded video+audio selector of the preset for 4k,
\* 2k, 1080p, 720p, 480p, 360p and "best" for 'best' and for a preset that
\* is not listed.
C12_FormatByPlatformAndPreset ==
    OptionsBuilt =>
        LET p == call.platform
            q == call.quality
            f == call.ydl_opts.format
        IN /\ p \in {Platform_TIKTOK, Platform_TWITTER} => f = "best"
           /\ (p \notin {Platform_TIKTOK, Platform_TWITTER} /\ q \in DOMAIN PresetHeight)
                 => f = HeightBounded(PresetHeight[q])
           /\ (p \notin {Platform_TIKTOK, Platform_TWITTER} /\ q \in {"best", "144p"})
                 => f = "best"

\* a TikTok URL asked for in 720p is requested as "best"
C12_Witness ==
    /\ OptionsBuilt
    /\ call.platform = Platform_TIKTOK
    /\ call.quality = "720p"
    /\ call.ydl_opts.format = "best"

\* C13 as stated: quality 'audio' gives the best-audio-only selector on every
\* platform, and '1080p' on a platform that is not format-limited gives
\* video of height <= 1080 plus best audio.
C13_AudioOnEveryPlatform ==
    OptionsBuilt =>
        /\ call.quality = "audio" => call.ydl_opts.format = "bestaudio/best"
        /\ (call.quality = "1080p"
               /\ call.platform \notin {Platform_TIKTOK, Platform_TWITTER})
              => call.ydl_opts.format = HeightBounded("1080")

\* C14: the subtitle options are in the engine request exactly when the
\* caller asked for subtitles and the platform is neither TikTok nor
\* Twitter/X; for those two platforms the request is the one built without
\* subtitles.
C14_SubtitlesOnlyWhenSupported ==
    OptionsBuilt =>
        LET limited == call.platform \in {Platform_TIKTOK, Platform_TWITTER}
            keys == {"writesubtitles", "writeautomaticsub", "subtitleslangs",
                     "subtitlesformat"}
        IN /\ (call.download_subtitles /\ ~limited) =>
                 /\ keys \subseteq DOMAIN call.ydl_opts
                 /\ call.ydl_opts.writesubtitles
                 /\ call.ydl_opts.writeautomaticsub
           /\ ~(call.download_subtitles /\ ~limited) =>
                 keys \cap DOMAIN call.ydl_opts = {}
           /\ limited =>
                 call.ydl_opts = ydl_opts(call.url, call.quality, FALSE)

\* subtitles were asked for on a Twitter/X URL and the request has none
C14_Witness ==
    /\ OptionsBuilt
    /\ call.platform = Platform_TWITTER
    /\ call.download_subtitles
    /\ "writesubtitles" \notin DOMAIN call.ydl_opts

\* the call last made was detect_platform
Classified == call.op = "detect_platform"

\* the URL's path (the text before the first ? or #, case ignored) ends in
\* one of the eight image extensions
PathEndsInImageExtension(url) ==
    LET cut == FindAny(url, {"?", "#"}, 1)
        path == IF cut = 0 THEN lower(url) ELSE lower(SubSeq(url, 1, cut - 1))
    IN \E ext \in image_extensions : EndsWith(path, ext)

\* the URL contains one of the domains of rules 1 and 2
HasPlatformDomain(url) ==
    \E d \in { <<"y","o","u","t","u","b","e",".","c","o","m">>,
               <<"y","o","u","t","u",".","b","e">>,
               <<"t","i","k","t","o","k",".","c","o","m">>,
               <<"t","w","i","t","t","e","r",".","c","o","m">>,
               <<"x",".","c","o","m">> } : Contains(lower(url), d)

C16_UnknownUnlessRuleMatches ==
    Classified =>
        /\ call.result \in {Platform_YOUTUBE, Platform_TIKTOK, Platform_TWITTER,
                            Platform_IMAGE, Platform_UNKNOWN}
        /\ call.result = Platform_TWITTER => is_twitter_media_url(call.url)
        /\ ( /\ ~is_video_url(call.url)
             /\ ~is_twitter_media_url(call.url)
             /\ ~is_image_url(call.url) ) => call.result = Platform_UNKNOWN

\* the call last made was organize_by_creator and os.makedirs succeeded
Organized == call.op = "organize_by_creator" /\ call.makedirs_ok

\* S of the spec: the nine illegal characters become _, an empty or missing
\* value becomes Unknown
SafeName(v) ==
    IF v = <<>> \/ v = None
    THEN <<"U","n","k","n","o","w","n">>
    ELSE [i \in 1..Len(v) |->
            IF v[i] \in {"<", ">", ":", "\"", "/", "\\", "|", "?", "*"}
            THEN "_" ELSE v[i]]

RECURSIVE SplitSlash(_)
\* the segments of one path component, split at /
SplitSlash(s) ==
    LET k == FindAny(s, {"/"}, 1)
    IN IF k = 0 THEN <<s>> ELSE <<SubSeq(s, 1, k - 1)>> \o SplitSlash(Tail0(s, k + 1))

RECURSIVE Segments(_)
Segments(path) ==
    IF path = <<>> THEN <<>> ELSE SplitSlash(Head(path)) \o Segments(Tail(path))

\* walking the segments of rel from a directory never climbs above it
StaysInside(rel) ==
    LET segs == Segments(rel)
        up(n) == Cardinality({i \in 1..n : segs[i] = <<".",".">>})
        down(n) == Cardinality({i \in 1..n : segs[i] \notin {<<".",".">>, <<".">>, <<>>}})
    IN \A n \in 1..Len(segs) : up(n) <= down(n)

\* C17: when os.makedirs succeeds organize_by_creator returns
\* base/S(platform)/S(creator), that directory exists afterwards,
\* organize(base, '', '') is base/Unknown/Unknown, and the returned path is
\* never outside base.
C17_OrganizedPath ==
    Organized =>
        /\ call.result =
              call.download_path \o <<SafeName(call.platform), SafeName(call.creator)>>
        /\ call.result \in created_dirs
        /\ (call.creator = <<>> /\ call.platform = <<>>) =>
              call.result = call.download_path \o
                  << <<"U","n","k","n","o","w","n">>, <<"U","n","k","n","o","w","n">> >>
        /\ StartsWith(call.result, call.download_path)
        /\ StaysInside(SubSeq(call.result, Len(call.download_path) + 1, Len(call.result)))

\* a creator name made of .. and / is organized into one directory below
\* the platform directory
C17_Witness ==
    /\ Organized
    /\ call.creator = <<".",".","/",".",".","/","e">>
    /\ call.result = DIR_A \o << Platform_YOUTUBE, <<".",".","_",".",".","_","e">> >>
    /\ call.result \in created_dirs

\* worker w called organize_by_creator and the directory was not created
OrganizeFailed(w) ==
    /\ w.organize_calls = 1
    /\ organize_target(w.org_base, w.uploader, w.platform) \notin created_dirs

\* C18: when the platform/creator directory cannot be created,
\* organize_by_creator returns the base directory, the job goes on to the
\* download with the output template in the base directory, and the record
\* of a successful job has the base directory as its file_path.
C18_OrganizeFailureDegrades ==
    \A j \in Live :
        LET w == job[j]
        IN OrganizeFailed(w) =>
             /\ w.organized_dir = w.org_base
             /\ w.pc # "m_organize"
             /\ w.pc = "done" => w.download_calls = 1
             /\ w.download_calls > 0 => w.dl_dir = w.org_base
             /\ w.record # NoRecord => w.record.file_path = w.org_base
             /\ (w.pc = "done" /\ w.returned = "record") =>
                   /\ w.record.file_path = w.org_base
                   /\ w.sig[Len(w.sig)].ok

C18_Witness ==
    \E j \in Live :
        /\ OrganizeFailed(job[j])
        /\ job[j].pc = "done"
        /\ job[j].returned = "record"
        /\ job[j].record.file_path = DIR_A
        /\ job[j].dl_dir = DIR_A

\* the progress values worker w has emitted, in order
ProgressValues(w) ==
    LET idx == {i \in DOMAIN w.sig : w.sig[i].t = "progress"}
        nth(k) == CHOOSE i \in idx : Cardinality({m \in idx : m < i}) = k - 1
    IN [k \in 1..Cardinality(idx) |-> w.sig[nth(k)].v]

\* worker w is fetching an image and the response has been received
ImageBody(w) == w.branch = "image" /\ w.filepath # NoPath

\* C19: with a positive Content-Length every chunk written reports one
\* progress value, the values are between 0 and 100 and never decrease, and
\* a successful fetch ends with the value 100, whether the body is shorter
\* than, equal to or longer than the declared length.
C19_ImageProgressMonotone ==
    \A j \in Live :
        LET w == job[j]
            p == ProgressValues(w)
        IN (ImageBody(w) /\ w.total_size > 0) =>
             /\ \A k \in DOMAIN p : 0 <= p[k] /\ p[k] <= 100
             /\ \A k \in DOMAIN p : k > 1 => p[k - 1] <= p[k]
             /\ Len(p) = w.chunks + (IF w.returned = "path" THEN 1 ELSE 0)
             /\ w.returned = "path" => p[Len(p)] = 100

\* a body of 2 + 1 bytes against a declared length of 3: 66, 100, then the
\* final 100
C19_Witness ==
    \E j \in Live :
        /\ ImageBody(job[j])
        /\ job[j].total_size = 3
        /\ job[j].returned = "path"
        /\ ProgressValues(job[j]) = <<66, 100, 100>>

\* C20 as stated: with no Content-Length a successful fetch reports a 0
\* while the body is written, before its final 100.
C20_ZeroBeforeHundred ==
    \A j \in Live :
        LET w == job[j]
            p == ProgressValues(w)
        IN (ImageBody(w) /\ w.total_size = 0 /\ w.returned = "path") =>
             /\ p[Len(p)] = 100
             /\ \E k \in DOMAIN p : k < Len(p) /\ p[k] = 0

\* the message of the event a failed Twitter/X job must end with, from the
\* phrases of the failure's message
TwitterFailureMessage(e) ==
    IF "not a video" \in e.kw THEN "tw_not_video"
    ELSE IF "private" \in e.kw \/ "protected" \in e.kw THEN "tw_private"
    ELSE IF "not found" \in e.kw \/ "does not exist" \in e.kw THEN "tw_not_found"
    ELSE e.kind

\* C21: a Twitter/X job whose call of download_media failed ends with exactly
\* one finished event, a failure, whose message is the not-a-video message, else
\* the private/protected message, else the not-found message, according to the
\* first of these classes the failure's message indicates, and the generic
\* error message when it indicates none; the probe and the download are each
\* invoked at most once.
C21_TwitterFailureClasses ==
    \A j \in Live :
        LET w == job[j]
        IN w.branch = "twitter" =>
             /\ w.probe_calls <= 1
             /\ w.download_calls <= 1
             /\ (w.pc = "done" /\ w.returned = "raised") =>
                   /\ Cardinality(FinishedAt(w)) = 1
                   /\ w.sig[Len(w.sig)] = FinishedSig(FALSE, TwitterFailureMessage(w.raised))

\* the download of a Twitter/X job raised a message that indicates both
\* not-a-video and a private account
C21_Witness ==
    \E j \in Live :
        /\ job[j].branch = "twitter"
        /\ job[j].pc = "done"
        /\ job[j].download_calls = 1
        /\ job[j].raised = Exc("generic", {"not a video", "private"})
        /\ job[j].sig[Len(job[j].sig)] = FinishedSig(FALSE, "tw_not_video")

\* C23: every progress event a worker emits carries an integer between 0 and
\* 100, whatever byte counters the engine reports (a downloaded count above the
\* total included) and whatever Content-Length the server sends.
C23_ProgressInRange ==
    \A j \in Live :
        \A i \in DOMAIN job[j].sig :
            job[j].sig[i].t = "progress" => job[j].sig[i].v \in 0..100

\* the engine reported more bytes downloaded than the total, and nothing was
\* emitted for that event
C23_Witness ==
    \E j \in Live :
        /\ job[j].pc = "m_events"
        /\ job[j].events = 1
        /\ ~job[j].saw_error
        /\ job[j].sig = <<>>

\* C25: a failure of the probe/download block of download_media leaves it as
\* the different-folder message when the engine's message contains 'No such
\* file or directory', else as the update-the-engine message when it contains
\* 'nsig extraction failed', else as the generic failure with the engine's
\* message attached; an error status reported through the progress hook is
\* classified the same way.
C25_HintOrder ==
    \A j \in Live :
        LET w == job[j]
        IN /\ \A kw \in w.caught :
                w.raised = IF PH_nofile \in kw THEN Exc("path_hint", {})
                           ELSE IF PH_nsig \in kw THEN Exc("update_hint", {})
                           ELSE Exc("generic", kw)
           /\ (w.pc = "done" /\ w.saw_error /\ w.dl_returned) => w.caught = {w.error_msg}
           /\ (w.pc = "done" /\ w.probe_calls = 1 /\ ~w.info_ok) => w.caught # {}

\* the engine's message held both phrases and the job ended with the
\* different-folder message
C25_Witness ==
    \E j \in Live :
        /\ job[j].pc = "done"
        /\ job[j].caught = {{PH_nofile, PH_nsig}}
        /\ job[j].raised = Exc("path_hint", {})

\* C28 as stated: within one extractor-backed job the progress values are
\* emitted in non-decreasing order, whatever sequence of 'downloading' and
\* 'finished' events the engine reports (a video stream and then an audio
\* stream included); the 0 reported while the total size is unknown is left
\* aside, the only values an event with a known total gives here being 50 and
\* 100.
C28_ExtractorProgressMonotone ==
    \A j \in Live :
        job[j].branch \in {"video", "twitter"} =>
            \A i, k \in DOMAIN ProgressValues(job[j]) :
                (i < k /\ ProgressValues(job[j])[i] # 0 /\ ProgressValues(job[j])[k] # 0)
                    => ProgressValues(job[j])[i] <= ProgressValues(job[j])[k]

\* C30: a worker started for a URL validate_url accepted takes the image, the
\* video or the Twitter/X branch of run and never the 'Unsupported URL' branch;
\* when it calls download_media the platform label is YouTube, TikTok or
\* Twitter, never Unknown.
C30_AcceptedIsRouted ==
    \A j \in Live :
        LET w == job[j]
        IN /\ w.pc = "start" => w.branch = "none"
           /\ w.pc # "start" => w.branch \in {"image", "video", "twitter"}
           /\ w.branch \in {"video", "twitter"} =>
                 w.platform \in {<<>>, Platform_YOUTUBE, Platform_TIKTOK, Platform_TWITTER}
           /\ w.probe_calls = 1 =>
                 w.platform \in {Platform_YOUTUBE, Platform_TIKTOK, Platform_TWITTER}

\* a Twitter/X job probed under the label Twitter
C30_Witness ==
    \E j \in Live :
        /\ job[j].branch = "twitter"
        /\ job[j].probe_calls = 1
        /\ job[j].platform = Platform_TWITTER

\* C27: save_download_history is a read-modify-write without a lock. Once a
\* write has succeeded the stored log is the list some call built from what it
\* had loaded (the last writer's), whatever the other calls appended in
\* between, and it holds at most 100 entries in every interleaving; so when two
\* calls both load before either writes, the final log holds only one of the
\* two new records.
C27_LastWriterWins ==
    (history_file.kind = "list" /\ \E j \in Jobs : job[j].write = "ok") =>
        /\ Len(history_file.log) <= HistoryCap
        /\ \E j \in Jobs :
              /\ job[j].write = "ok"
              /\ history_file.log = job[j].history
              /\ job[j].history =
                    ExpectedLog(StoredLog(job[j].loaded), EntryOf(job[j].record))

\* two calls with different records loaded the same 100-entry log, both wrote
\* with success, and the record of the first call is not in the file
C27_Witness ==
    /\ Len(job) = 2
    /\ job[1].write = "ok"
    /\ job[2].write = "ok"
    /\ job[1].record # job[2].record
    /\ job[1].loaded = HistoryFile("list", OldLog(100))
    /\ job[2].loaded = job[1].loaded
    /\ history_file.kind = "list"
    /\ Len(history_file.log) = 100
    /\ history_file.log[100] = EntryOf(job[2].record)
    /\ \A i \in DOMAIN history_file.log : history_file.log[i] # EntryOf(job[1].record)

\* C29 as stated: two image downloads of different URLs under the same output
\* directory never settle on the same file path, so the later one never
\* truncates the file of the earlier one, whichever of the three sources
\* (Content-Disposition, URL basename, synthesized hash name) names the file.
C29_ImagePathsDistinct ==
    [][(/\ call.op = "download_image"
        /\ call'.op = "download_image"
        /\ call.result # NoPath
        /\ call'.result # NoPath
        /\ call.url # call'.url)
       => (call'.result # call.result /\ ~call'.existed)]_vars

\* the last start_download handled a URL that validate_url rejects
RejectedClick == call' # call /\ call'.op = "start_download" /\ ~validate_url(call'.url)

\* C22: a start_download for a URL that validate_url rejects (empty, without
\* scheme or host, a host-relative Twitter image path, or one that none of the
\* three predicates matches) creates no worker and leaves the worker list, the
\* download button and the progress bar as they were; nothing is requested
\* from the network and nothing is written to the file system.
C22_RejectedStartsNothing ==
    [][RejectedClick =>
          /\ UNCHANGED <<job, workers, download_btn>>
          /\ progress_bar' = progress_bar
          /\ UNCHANGED <<files, created_dirs, history_file, OUTPUT_DIR>>]_vars

\* a host-relative Twitter image path was rejected after a download had ended
C22_Witness ==
    /\ call = [op |-> "start_download", url |-> URL_relative]
    /\ Len(job) = 1
    /\ job[1].pc = "dropped"
    /\ download_btn

\* worker j is in the worker list
InWorkers(j) == \E i \in DOMAIN workers : workers[i] = j

\* worker j was started and has not emitted finished
Running(j) == j \in Jobs /\ job[j].pc \notin {"done", "dropped"}

\* C24: every worker that was started emits finished, exactly once, and after
\* that it is removed from the worker list and the download button is enabled
\* again (every call the worker makes returns or raises, and the event loop
\* runs).
C24_EveryWorkerFinishes ==
    \A j \in 1..MaxStarts :
        /\ Running(j) ~> (j \in Jobs /\ job[j].pc = "done"
                            /\ Cardinality(FinishedAt(job[j])) = 1)
        /\ (j \in Jobs /\ job[j].pc = "done")
              ~> (j \in Jobs /\ job[j].pc = "dropped" /\ download_btn /\ ~InWorkers(j))

\* the second worker has been removed from the list and the button is enabled
C24_Witness ==
    /\ Len(job) = 2
    /\ job[2].pc = "dropped"
    /\ workers = <<>>
    /\ download_btn

\* two workers are in the worker list and neither has emitted finished
TwoRunning ==
    \E j, k \in Jobs :
        j # k /\ Running(j) /\ Running(k) /\ InWorkers(j) /\ InWorkers(k)

\* C26 as stated: a state in which two workers started through start_download
\* are both running is reached.
C26_Original == <>TwoRunning

\* C26 amended: at most one worker started through start_download is running
\* at a time: while a worker is in the worker list the download button is
\* disabled and the list holds no other worker; the next worker is started only
\* after on_worker_finished has removed the previous one.
C26_Amended ==
    /\ Len(workers) <= 1
    /\ Cardinality(Live) <= 1
    /\ Live # {} => ~download_btn
    /\ ~TwoRunning

\* a second worker is running, the first one has been removed
C26_Witness ==
    /\ Len(job) = 2
    /\ job[1].pc = "dropped"
    /\ Running(2)
    /\ workers = <<2>>
====
